---- MODULE Spec2Model ----
(***************************************************************************)
(* The APQ plugin of src/examples/apq/rust/src/apq.rs: the APQLayer, the   *)
(* Apq plugin built by Apq::new, and the checkpoint that router_service    *)
(* puts in front of the downstream router service.                         *)
(*                                                                         *)
(* A router::Request is modelled by the two parts of the GraphQL operation *)
(* the APQ protocol looks at: the optional query text and the optional     *)
(* persistedQuery extension.  An optional value is a sequence of length    *)
(* at most one.                                                            *)
(***************************************************************************)
EXTENDS Integers, Sequences, FiniteSets, TLC

\* Number of requests a run sends through the service.
MaxRequests == 2

\* Query documents, and the digests clients may name.
Texts == {"q1", "q2"}
Hashes == {"h1", "h2"}

\* The content hash of a query document (two documents, two digests).
hashOf(t) == IF t = "q1" THEN "h1" ELSE "h2"

Versions == {1, 2}

NoExt == [present |-> FALSE, version |-> 0, sha256Hash |-> "-"]
Ext(v, h) == [present |-> TRUE, version |-> v, sha256Hash |-> h]
Extensions == {NoExt} \cup {Ext(v, h) : v \in Versions, h \in Hashes}

Queries == {<<>>} \cup {<<t>> : t \in Texts}

\* router::Request
Requests == [query : Queries, ext : Extensions]

\* The response streams the downstream router service may produce.
Streams == {<<"r1">>, <<"r1", "r2">>}

Ids == 1..MaxRequests

\* Result<router::Request, router::Response>
Ok(request) == [tag |-> "Ok", request |-> request]
Err(router_response) == [tag |-> "Err", response |-> router_response]
NoResult == [tag |-> "None"]

\* ControlFlow<router::Response, router::Request>
Continue(request) == [tag |-> "Continue", request |-> request]
Break(router_response) == [tag |-> "Break", response |-> router_response]
NoFlow == [tag |-> "None"]

VARIABLES
    configuration,  \* Apq.configuration: [enabled : BOOLEAN]
    apq_layer,      \* Apq.apq_layer: [cache : STRING]
    apq,            \* the clone of apq_layer the checkpoint closure owns (<<>> before router_service)
    sent,           \* number of requests the callers have sent
    pc,             \* per request: "new", "queued", "downstream", "done"
    inbound,        \* per request: the router::Request the caller sent
    apq_result,     \* per request: what APQLayer::request returned
    flow,           \* per request: the ControlFlow the checkpoint closure returned
    history,        \* the events <<"send", i>> and <<"checkpoint", i>>, in order
    calls,          \* the downstream service's invocations, in order
    ds_response,    \* per request: the stream the downstream service produced
    response        \* per request: the stream the caller received

vars == <<configuration, apq_layer, apq, sent, pc, inbound, apq_result, flow,
          history, calls, ds_response, response>>

\* The value Apq::new gives the cache field.
InitialCache == "Some caching functionality"

\* The hash -> text entries that can be retrieved from a cache value: the
\* field is a String, which holds none.
CacheEntries(cache) == {}

\* APQLayer::request with the extension check left out: every request without
\* a query is looked up in the cache, misses, and is answered with an error.
APQLayer_request_NoExtensionCheck(self, request) ==
    IF request.query = <<>>
        THEN [result |-> Err(<<"PersistedQueryNotFound">>), self |-> self]
        ELSE [result |-> Ok(request), self |-> self]

\* APQLayer::request checking the protocol version, whatever the plugin's
\* configuration says: a persistedQuery extension of another version is an error.
APQLayer_request_RejectsOtherVersions(self, request) ==
    IF request.ext.present /\ request.ext.version # 1
        THEN [result |-> Err(<<"PersistedQueryNotSupported">>), self |-> self]
        ELSE [result |-> Ok(request), self |-> self]

\* APQLayer::request comparing the hash of the query with sha256Hash.
APQLayer_request_RejectsMismatch(self, request) ==
    IF /\ request.ext.present
       /\ request.query # <<>>
       /\ hashOf(request.query[1]) # request.ext.sha256Hash
        THEN [result |-> Err(<<"PersistedQueryHashMismatch">>), self |-> self]
        ELSE [result |-> Ok(request), self |-> self]

\* APQLayer::request writing every query that comes with a persistedQuery
\* extension into the cache, without comparing its hash with sha256Hash.
APQLayer_request_CachesUnvalidated(self, request) ==
    IF request.ext.present /\ request.query # <<>>
        THEN [result |-> Ok(request), self |-> [cache |-> request.query[1]]]
        ELSE [result |-> Ok(request), self |-> self]

\* APQLayer::request(&self, request): the result, and the layer afterwards.
APQLayer_request(self, request) ==
    [result |-> Ok(request), self |-> self]

\* The closure asy with the arms of the match swapped: Ok breaks the chain.
asy_ArmsSwapped(result) ==
    IF result.tag = "Ok"
        THEN Break(<<"r1">>)
        ELSE Continue([query |-> <<>>, ext |-> NoExt])

\* The closure asy of router_service: the match on apq_result.
asy(result) ==
    IF result.tag = "Ok"
        THEN Continue(result.request)
        ELSE Break(result.response)

\* Apq::new(init): the plugin with the configuration it was given.
Init ==
    /\ configuration \in [enabled : BOOLEAN]
    /\ apq_layer = [cache |-> InitialCache]
    /\ apq = <<>>
    /\ sent = 0
    /\ pc = [i \in Ids |-> "new"]
    /\ inbound = [i \in Ids |-> [query |-> <<>>, ext |-> NoExt]]
    /\ apq_result = [i \in Ids |-> NoResult]
    /\ flow = [i \in Ids |-> NoFlow]
    /\ history = <<>>
    /\ calls = <<>>
    /\ ds_response = [i \in Ids |-> <<>>]
    /\ response = [i \in Ids |-> <<>>]

\* Apq::router_service: clone the layer into the checkpoint closure and put
\* the checkpoint in front of the service.
RouterService ==
    /\ apq = <<>>
    /\ apq' = <<apq_layer>>
    /\ UNCHANGED <<configuration, apq_layer, sent, pc, inbound, apq_result, flow,
                   history, calls, ds_response, response>>

\* A caller hands a request to the built service (oneshot); buffered() queues it.
Send(req) ==
    /\ apq # <<>>
    /\ sent < MaxRequests
    /\ sent' = sent + 1
    /\ inbound' = [inbound EXCEPT ![sent + 1] = req]
    /\ pc' = [pc EXCEPT ![sent + 1] = "queued"]
    /\ history' = Append(history, <<"send", sent + 1>>)
    /\ UNCHANGED <<configuration, apq_layer, apq, apq_result, flow,
                   calls, ds_response, response>>

\* checkpoint_async(asy) on request i: run the closure; on Continue call the
\* downstream service with the request, on Break answer the caller at once.
Checkpoint(i) ==
    /\ pc[i] = "queued"
    /\ LET out == APQLayer_request(apq[1], inbound[i])
           cf == asy(out.result)
       IN  /\ apq' = <<out.self>>
           /\ apq_result' = [apq_result EXCEPT ![i] = out.result]
           /\ flow' = [flow EXCEPT ![i] = cf]
           /\ history' = Append(history, <<"checkpoint", i>>)
           /\ IF cf.tag = "Continue"
                 THEN /\ calls' = Append(calls, [id |-> i, request |-> cf.request])
                      /\ pc' = [pc EXCEPT ![i] = "downstream"]
                      /\ response' = response
                 ELSE /\ calls' = calls
                      /\ pc' = [pc EXCEPT ![i] = "done"]
                      /\ response' = [response EXCEPT ![i] = cf.response]
    /\ UNCHANGED <<configuration, apq_layer, sent, inbound, ds_response>>

\* The downstream service answers request i and the request is handed to the
\* checkpoint again instead of the response being handed to the caller.
Downstream_Reenters(i, stream) ==
    /\ pc[i] = "downstream"
    /\ Len(history) < 3 * MaxRequests
    /\ ds_response' = [ds_response EXCEPT ![i] = stream]
    /\ pc' = [pc EXCEPT ![i] = "queued"]
    /\ UNCHANGED <<configuration, apq_layer, apq, sent, inbound, apq_result,
                   flow, history, calls, response>>

\* The downstream service answers request i and the response is never handed
\* to the caller, who keeps waiting.
Downstream_LosesResponse(i, stream) ==
    /\ pc[i] = "downstream"
    /\ ds_response' = [ds_response EXCEPT ![i] = stream]
    /\ UNCHANGED <<configuration, apq_layer, apq, sent, pc, inbound, apq_result,
                   flow, history, calls, response>>

\* The downstream service answers request i; the checkpoint hands its
\* response to the caller as it is.
Downstream(i, stream) ==
    /\ pc[i] = "downstream"
    /\ ds_response' = [ds_response EXCEPT ![i] = stream]
    /\ response' = [response EXCEPT ![i] = stream]
    /\ pc' = [pc EXCEPT ![i] = "done"]
    /\ UNCHANGED <<configuration, apq_layer, apq, sent, inbound, apq_result,
                   flow, history, calls>>

Next ==
    \/ RouterService
    \/ \E req \in Requests : Send(req)
    \/ \E i \in Ids : Checkpoint(i)
    \/ \E i \in Ids, stream \in Streams : Downstream(i, stream)

Spec == Init /\ [][Next]_vars

\* The runtime polls every queued request's future, and the downstream
\* service answers every call it was given.
FairSpec ==
    /\ Spec
    /\ \A i \in Ids : WF_vars(Checkpoint(i))
    /\ \A i \in Ids : WF_vars(\E stream \in Streams : Downstream(i, stream))

(***************************************************************************)
(* Vocabulary of the properties.                                           *)
(***************************************************************************)

Processed(i) == pc[i] \in {"downstream", "done"}

\* The step in which the checkpoint handles request i.
CheckpointStep(i) == pc[i] = "queued" /\ pc'[i] # "queued"

Invoked(i) == \E k \in 1..Len(calls) : calls[k].id = i

\* The request the downstream service was called with for request i.
Forwarded(i) == calls[CHOOSE k \in 1..Len(calls) : calls[k].id = i].request

Pos(event, i) == CHOOSE k \in 1..Len(history) : history[k] = <<event, i>>

\* Request j carried version 1, hash h and the text t, with hashOf(t) = h.
Registers(j, h, t) ==
    /\ inbound[j].ext = Ext(1, h)
    /\ inbound[j].query = <<t>>
    /\ hashOf(t) = h

\* A request the checkpoint handled before it handled request i registered
\* text t under hash h and was let through.
RegisteredEarlier(i, h, t) ==
    \E j \in Ids :
        /\ Processed(j) /\ Processed(i)
        /\ Pos("checkpoint", j) < Pos("checkpoint", i)
        /\ Registers(j, h, t)
        /\ apq_result[j].tag = "Ok"

\* Request i was sent after the checkpoint had let through a request that
\* registered text t under hash h.
SentAfterRegistration(i, h, t) ==
    \E j \in Ids :
        /\ Processed(j) /\ pc[i] # "new"
        /\ Pos("checkpoint", j) < Pos("send", i)
        /\ Registers(j, h, t)
        /\ apq_result[j].tag = "Ok"

IsKey(cache, h) == \E e \in CacheEntries(cache) : e[1] = h

RejectKinds ==
    {"PersistedQueryNotSupported", "PersistedQueryNotFound", "PersistedQueryHashMismatch"}

\* The decision the APQ protocol prescribes for a request against a cache.
Decision(request, cache) ==
    IF ~request.ext.present THEN "PassThrough"
    ELSE IF request.ext.version # 1 THEN "PersistedQueryNotSupported"
    ELSE IF request.query = <<>>
        THEN IF IsKey(cache, request.ext.sha256Hash)
                THEN "Continue" ELSE "PersistedQueryNotFound"
    ELSE IF hashOf(request.query[1]) # request.ext.sha256Hash
        THEN "PersistedQueryHashMismatch"
    ELSE "Continue"

\* How often the downstream service was called for request i, and how often
\* the checkpoint closure ran for it.
CallCount(i) == Cardinality({k \in 1..Len(calls) : calls[k].id = i})
CheckpointCount(i) == Cardinality({k \in 1..Len(history) : history[k] = <<"checkpoint", i>>})

\* Cache contents the layer could be holding.
CacheValues == {InitialCache, ""}

(***************************************************************************)
(* The properties.                                                         *)
(***************************************************************************)

C2_HashIntegrity ==
    apq # <<>> =>
        \A e \in CacheEntries(apq[1].cache) : hashOf(e[2]) = e[1]

\* C3: a request with a persistedQuery extension that reaches the downstream
\* service has version 1, a query, and a query whose hash is sha256Hash; and
\* if the caller sent no query, the text was registered under that hash by an
\* earlier request.
C3_DownstreamSeesVerifiedQueries ==
    \A k \in 1..Len(calls) :
        LET r == calls[k].request
            i == calls[k].id
        IN  r.ext.present =>
                /\ r.ext.version = 1
                /\ r.query # <<>>
                /\ hashOf(r.query[1]) = r.ext.sha256Hash
                /\ inbound[i].query = <<>> =>
                       RegisteredEarlier(i, r.ext.sha256Hash, r.query[1])

\* C4: a request without a persistedQuery extension, with or without a query,
\* is let through: APQLayer::request returns it as it is and produces no
\* error, whatever the cache holds; the checkpoint continues and calls the
\* downstream service with the same query and extensions; the cache is left
\* as it was.
C4_NoExtensionPassesThrough ==
    [][\A i \in Ids :
        (CheckpointStep(i) /\ ~inbound[i].ext.present)
            => /\ apq_result'[i] = Ok(inbound[i])
               /\ \A c \in CacheValues :
                      APQLayer_request([cache |-> c], inbound[i]).result = apq_result'[i]
               /\ flow'[i] = Continue(inbound[i])
               /\ calls' = Append(calls, [id |-> i, request |-> inbound[i]])
               /\ pc'[i] = "downstream"
               /\ apq' = apq]_vars

\* C4 witness: requests without an extension, one with and one without a query,
\* have gone through the checkpoint and the downstream service.
C4_Witness ==
    \E i, j \in Ids :
        /\ pc[i] = "done" /\ ~inbound[i].ext.present /\ inbound[i].query = <<>>
        /\ pc[j] = "done" /\ ~inbound[j].ext.present /\ inbound[j].query # <<>>
        /\ Invoked(i) /\ Invoked(j)

\* C5: a version 1 request without a query whose hash is not a key of the
\* cache is rejected with PersistedQueryNotFound; the downstream service is
\* not called and the cache is left as it was.
C5_UnknownHashIsRejected ==
    [][\A i \in Ids, h \in Hashes :
        (/\ CheckpointStep(i)
         /\ inbound[i].ext = Ext(1, h)
         /\ inbound[i].query = <<>>
         /\ ~IsKey(apq[1].cache, h))
            => /\ apq_result'[i] = Err(<<"PersistedQueryNotFound">>)
               /\ calls' = calls
               /\ apq' = apq]_vars

\* C6: a version 1 request without a query whose hash is a key of the cache
\* is forwarded with the text stored under the hash; so a request sent after
\* the registration of the hash is forwarded with the registered text.
C6_KnownHashIsRewritten ==
    \A i \in Ids, h \in Hashes :
        (Processed(i) /\ inbound[i].ext = Ext(1, h) /\ inbound[i].query = <<>>)
            => /\ \A e \in CacheEntries(apq[1].cache) :
                      e[1] = h => (Invoked(i) /\ Forwarded(i).query = <<e[2]>>)
               /\ \A t \in Texts :
                      SentAfterRegistration(i, h, t)
                          => (Invoked(i) /\ Forwarded(i).query = <<t>>)

\* C7: a version 1 request with a query whose hash is sha256Hash is let
\* through as it is, and afterwards the cache maps sha256Hash to the query.
C7_MatchingQueryIsRegistered ==
    [][\A i \in Ids, h \in Hashes, t \in Texts :
        (CheckpointStep(i) /\ Registers(i, h, t))
            => /\ apq_result'[i] = Ok(inbound[i])
               /\ calls' = Append(calls, [id |-> i, request |-> inbound[i]])
               /\ <<h, t>> \in CacheEntries(apq'[1].cache)]_vars

\* C8: a version 1 request with a query whose hash differs from sha256Hash is
\* rejected with PersistedQueryHashMismatch; the cache is left as it was and
\* the downstream service is not called.
C8_MismatchIsRejected ==
    [][\A i \in Ids, h \in Hashes, t \in Texts :
        (/\ CheckpointStep(i)
         /\ inbound[i].ext = Ext(1, h)
         /\ inbound[i].query = <<t>>
         /\ hashOf(t) # h)
            => /\ apq_result'[i] = Err(<<"PersistedQueryHashMismatch">>)
               /\ calls' = calls
               /\ apq' = apq]_vars

\* C9: a request with a persistedQuery extension of a version other than 1 is
\* rejected with PersistedQueryNotSupported, whatever its query and hash; the
\* cache is left as it was and the downstream service is not called.
C9_OtherVersionIsRejected ==
    [][\A i \in Ids :
        (/\ CheckpointStep(i)
         /\ inbound[i].ext.present
         /\ inbound[i].ext.version # 1)
            => /\ apq_result'[i] = Err(<<"PersistedQueryNotSupported">>)
               /\ calls' = calls
               /\ apq' = apq]_vars

\* C10: a request that APQLayer::request lets through is forwarded, as the
\* layer returned it, to the downstream service, which is called once for it;
\* the caller receives the downstream service's response stream, the same
\* responses and no more.
C10_DownstreamResponseIsRelayed ==
    \A i \in Ids :
        (Processed(i) /\ apq_result[i].tag = "Ok")
            => /\ Cardinality({k \in 1..Len(calls) : calls[k].id = i}) = 1
               /\ Forwarded(i) = apq_result[i].request
               /\ pc[i] = "done" =>
                      /\ ds_response[i] \in Streams
                      /\ response[i] = ds_response[i]

\* C10 witness: a request without APQ metadata and a request with it were both
\* let through and answered, one of them with a stream of two responses.
C10_Witness ==
    \E i, j \in Ids :
        /\ pc[i] = "done" /\ apq_result[i].tag = "Ok" /\ ~inbound[i].ext.present
        /\ pc[j] = "done" /\ apq_result[j].tag = "Ok" /\ inbound[j].ext.present
        /\ Len(response[i]) = 2
        /\ configuration.enabled

\* C11: with enabled false every request, whatever its persistedQuery
\* extension and query, is let through: the layer returns it as it is whatever
\* the cache holds, no rejection is produced, the downstream service is called
\* with the same request and the cache is left as it was.
C11_DisabledIsPassThrough ==
    [][\A i \in Ids :
        (CheckpointStep(i) /\ ~configuration.enabled)
            => /\ apq_result'[i] = Ok(inbound[i])
               /\ \A c \in CacheValues :
                      APQLayer_request([cache |-> c], inbound[i]).result = Ok(inbound[i])
               /\ flow'[i].tag # "Break"
               /\ calls' = Append(calls, [id |-> i, request |-> inbound[i]])
               /\ apq' = apq]_vars

\* C11 witness: with enabled false, a request of another version and a
\* request whose query does not match its hash have been forwarded.
C11_Witness ==
    /\ ~configuration.enabled
    /\ \E i, j \in Ids :
        /\ Processed(i) /\ inbound[i].ext.present /\ inbound[i].ext.version = 2
        /\ Processed(j) /\ inbound[j].ext = Ext(1, "h2") /\ inbound[j].query = <<"q1">>
        /\ Invoked(i) /\ Invoked(j)

C19_StubForwardsEverything ==
    [][\A i \in Ids :
        CheckpointStep(i)
            => /\ apq_result'[i] = Ok(inbound[i])
               /\ \A c \in CacheValues, r \in Requests :
                      APQLayer_request([cache |-> c], r) = [result |-> Ok(r), self |-> [cache |-> c]]
               /\ apq' = apq
               /\ flow'[i] = Continue(inbound[i])
               /\ pc'[i] = "downstream"
               /\ calls' = Append(calls, [id |-> i, request |-> inbound[i]])]_vars

\* C19 witness: a request without a query under version 1 and a request whose
\* query does not match its hash have both reached the downstream service
\* as they were sent.
C19_Witness ==
    \E i, j \in Ids :
        /\ Invoked(i) /\ inbound[i].ext = Ext(1, "h1") /\ inbound[i].query = <<>>
        /\ Forwarded(i) = inbound[i]
        /\ Invoked(j) /\ inbound[j].ext = Ext(1, "h1") /\ inbound[j].query = <<"q2">>
        /\ Forwarded(j) = inbound[j]

\* C18: per request the checkpoint closure runs once, and whatever it does
\* to the cache it does in that one step, before its decision; the downstream
\* service is then called once if the layer returned Ok and not at all if it
\* returned Err; once the downstream call has started the cache is not
\* touched for the request and the closure does not run for it again.
C18_CallOrdering ==
    /\ [](\A i \in Ids :
            /\ CheckpointCount(i) = (IF Processed(i) THEN 1 ELSE 0)
            /\ CallCount(i) = (IF Processed(i) /\ apq_result[i].tag = "Ok" THEN 1 ELSE 0)
            /\ pc[i] = "downstream" => (apq_result[i].tag = "Ok" /\ flow[i].tag = "Continue"))
    /\ [][\A i \in Ids :
            Processed(i)
                => /\ Processed(i)'
                   /\ pc[i] # pc'[i] => (apq' = apq /\ calls' = calls /\ history' = history)]_vars

\* C18 witness: two requests were both sent before the closure ran for either,
\* and both were answered, each after one run of the closure and one call.
C18_Witness ==
    \E i, j \in Ids :
        /\ i # j
        /\ pc[i] = "done" /\ pc[j] = "done"
        /\ Pos("send", j) < Pos("checkpoint", i)
        /\ Pos("send", i) < Pos("checkpoint", j)
        /\ CheckpointCount(i) = 1 /\ CheckpointCount(j) = 1
        /\ CallCount(i) = 1 /\ CallCount(j) = 1

\* C20: every request that was queued is eventually answered, and an
\* answered request has exactly one outcome: the downstream service's
\* response after one call, or the response of a Break without any call;
\* a request that is not answered yet has received nothing.
C20_ExactlyOneOutcome ==
    /\ \A i \in Ids : (pc[i] = "queued") ~> (pc[i] = "done")
    /\ [](\A i \in Ids :
            IF pc[i] = "done"
                THEN \/ /\ flow[i].tag = "Continue"
                        /\ CallCount(i) = 1
                        /\ ds_response[i] \in Streams
                        /\ response[i] = ds_response[i]
                     \/ /\ flow[i].tag = "Break"
                        /\ CallCount(i) = 0
                        /\ ds_response[i] = <<>>
                        /\ response[i] = flow[i].response
                ELSE response[i] = <<>>)

\* C20 witness: every request of the run was sent and has been answered.
C20_Witness ==
    /\ sent = MaxRequests
    /\ \A i \in Ids : pc[i] = "done" /\ response[i] \in Streams

TypeOK ==
    /\ configuration \in [enabled : BOOLEAN]
    /\ sent \in 0..MaxRequests
    /\ pc \in [Ids -> {"new", "queued", "downstream", "done"}]
    /\ inbound \in [Ids -> Requests]
    /\ Len(history) <= 2 * MaxRequests
    /\ Len(calls) <= MaxRequests
====
